---- MODULE Spec2Model ----
(***************************************************************************)
(* TasksService (src/src/modules/tasks/tasks.service.ts): the task         *)
(* lifecycle against the task repository (store) and the 'task-processing' *)
(* queue.  JavaScript values are modelled as strings: UNDEF is undefined,  *)
(* NULL is null, "" is the empty string; an absent property of a DTO is an *)
(* absent field of the record.  Ids are the strings "1", "2", ...  A null  *)
(* entity (findOne finding no row) is the record NULL.                     *)
(***************************************************************************)
EXTENDS Integers, Sequences, FiniteSets, Bags, TLC

VARIABLES
    store,       \* the tasks table, in store order: a sequence of task records
    nextId,      \* the next id the store generates on insert
    queue,       \* jobs the queue accepted, oldest first
    pending,     \* jobs of adds whose promise is going to reject, in order of the adds
    rejections,  \* promises of taskQueue.add that rejected, in order of rejection
    alive,       \* whether the service's process is running
    result,      \* the outcome of the last service call that returned
    ncalls,      \* number of calls started so far
    inflight,    \* the handlers suspended at an await: a bag, one record per call
    deleted      \* ids whose row a remove call has deleted (history)

vars == <<store, nextId, queue, pending, rejections, alive, result, ncalls, inflight,
          deleted>>

-----------------------------------------------------------------------------
(* Bounds of the model *)

MaxTasks == 2
MaxCalls == 3
MaxInflight == 2
MaxQueryTasks == 25
MaxPattern == 2

-----------------------------------------------------------------------------
(* Values *)

UNDEF == "undefined"
NoDate == "null"
NULL == [null |-> TRUE]
JobName == "task-status-update"

Statuses == {"PENDING", "IN_PROGRESS", "COMPLETED"}
Priorities == {"LOW", "MEDIUM", "HIGH"}
DefaultStatus == "PENDING"

Ids == {ToString(n) : n \in 1..MaxTasks}

PatchFields == {"title", "description", "status", "priority", "dueDate"}

\* CreateTaskDto values: caller-supplied title, description, priority, optional dueDate.
CreateDtos ==
    { [title |-> "t1", description |-> "d1", priority |-> "LOW", userId |-> "u1"],
      [title |-> "t1", description |-> "d1", priority |-> "HIGH", userId |-> "u1",
       dueDate |-> "2025-01-01"] }

\* UpdateTaskDto values: the empty patch, a patch of the status alone, and a
\* patch of several fields mixing truthy and falsy (empty string) values.
Patches ==
    { <<>>,
      [status |-> "IN_PROGRESS"],
      [title |-> "t2", description |-> "", status |-> "PENDING",
       dueDate |-> "2025-06-30"] }

\* Status arguments of updateStatus(id, status: string): any string.
StatusArgs == {"COMPLETED", "BOGUS"}

-----------------------------------------------------------------------------
(* JavaScript helpers *)

\* obj.f : undefined when the property is absent
Get(obj, f) == IF f \in DOMAIN obj THEN obj[f] ELSE UNDEF

\* if (v) ... : undefined, null and the empty string are falsy
Truthy(v) == v \notin {UNDEF, NoDate, ""}

\* Values of the numeric arguments of findAll (page?: number, limit?: number):
\* undefined or a number.
JsUndef == [t |-> "undefined"]
JsNum(n) == [t |-> "number", n |-> n]

\* if (v) ... for these values: undefined and 0 are falsy
TruthyNum(v) == v.t = "number" /\ v.n # 0

\* Number(v) of a number is the number
ToNumber(v) == v

-----------------------------------------------------------------------------
(* The repository (TypeORM Repository<Task>) *)

StoreIds(s) == { s[i].id : i \in 1..Len(s) }

\* tasksRepository.create(dto): an entity with the dto's properties and no id
RepoCreate(dto) == dto

\* the row the store writes for an entity: a new entity gets a generated id and
\* the column defaults; an entity that has an id is written as it is
Persisted(entity, nid) ==
    IF "id" \in DOMAIN entity THEN entity
    ELSE [id |-> ToString(nid),
          title |-> Get(entity, "title"),
          description |-> Get(entity, "description"),
          status |-> IF Truthy(Get(entity, "status")) THEN entity.status ELSE DefaultStatus,
          priority |-> Get(entity, "priority"),
          dueDate |-> IF "dueDate" \in DOMAIN entity THEN entity.dueDate ELSE NoDate,
          user |-> Get(entity, "userId")]

\* tasksRepository.save(entity): update the row with the entity's id, insert when
\* there is no such row
StoreSave(s, e) ==
    IF e.id \in StoreIds(s)
    THEN [i \in 1..Len(s) |-> IF s[i].id = e.id THEN e ELSE s[i]]
    ELSE Append(s, e)

\* tasksRepository.remove(entity): delete the row with the entity's id, if any
StoreRemove(s, e) == SelectSeq(s, LAMBDA t : t.id # e.id)

\* tasksRepository.findOne({ where: { id } }): the task or null
RepoFindOne(s, id) ==
    IF id \in StoreIds(s) THEN (CHOOSE t \in {s[i] : i \in 1..Len(s)} : t.id = id) ELSE NULL

\* a query's rows: the tasks, in store order, that pass the andWhere filters
QueryRows(s, filters) ==
    SelectSeq(s, LAMBDA t : \A f \in DOMAIN filters : t[f] = filters[f])

\* skip(n).take(m).getMany(): rows n+1 .. n+m of the query, to the end when m is
\* undefined (no take is set)
GetMany(rows, skip, take) ==
    LET first == skip.n + 1
        last == IF take = JsUndef THEN Len(rows)
                ELSE IF skip.n + take.n < Len(rows) THEN skip.n + take.n ELSE Len(rows)
    IN  SubSeq(rows, first, last)

\* the raw row of the statistics query: COUNT(*) is the number of rows, SUM(CASE
\* WHEN field = value THEN 1 ELSE 0 END) is NULL over no rows
SqlCount(s) == [n |-> Len(s)]

SqlSumRows(s, field, value) ==
    IF Len(s) = 0 THEN NULL ELSE [n |-> Len(s)]

SqlSum(s, field, value) ==
    IF Len(s) = 0 THEN NULL
    ELSE [n |-> Cardinality({i \in 1..Len(s) : s[i][field] = value})]

\* Number(raw) of a raw column: Number(null) is 0
RawNumber(raw) == IF raw = NULL THEN 0 ELSE raw.n

-----------------------------------------------------------------------------
(* The queue (BullMQ Queue 'task-processing') and the process *)

\* the payload of a 'task-status-update' job for a persisted task
StatusUpdateJob(t) == [name |-> JobName, taskId |-> t.id, status |-> t.status]

\* What becomes of the promise of this.taskQueue.add(name, payload), which the
\* handlers neither await nor give a catch: the queue accepts the job, or the
\* promise is going to reject.
AddOutcomes == {"accepted", "rejected"}

QueueAdd(job, outcome) ==
    IF outcome = "accepted"
    THEN /\ queue' = Append(queue, job)
         /\ UNCHANGED pending
    ELSE /\ pending' = Append(pending, job)
         /\ UNCHANGED queue

NoQueueAdd == UNCHANGED <<queue, pending>>

\* the promise of an add rejects, at once or later; nothing handles it
AddRejects ==
    /\ alive
    /\ \E i \in 1..Len(pending) :
          /\ rejections' = Append(rejections, [job |-> pending[i], reported |-> FALSE])
          /\ pending' = SubSeq(pending, 1, i - 1) \o SubSeq(pending, i + 1, Len(pending))
    /\ UNCHANGED <<store, nextId, queue, alive, result, ncalls, inflight, deleted>>

\* The process-level handling of an unhandled rejection.  The runtime's default
\* writes the error of the first unhandled rejection to stderr and ends the
\* process, some steps of the handlers later; every suspended handler is gone.
\* A process that swallows the rejection never takes this step.
ProcessExit ==
    /\ alive
    /\ rejections # <<>>
    /\ rejections' = [rejections EXCEPT ![1].reported = TRUE]
    /\ alive' = FALSE
    /\ inflight' = EmptyBag
    /\ UNCHANGED <<store, nextId, queue, pending, result, ncalls, deleted>>

-----------------------------------------------------------------------------
(* TasksService: the calls *)

\* a handler can start: the process runs; the model starts at most MaxCalls calls
CanStart == alive /\ ncalls < MaxCalls

\* a new call runs to its first await and is suspended there as `call`, the
\* repository operation it awaits done
Suspend(call) ==
    /\ BagCardinality(inflight) < MaxInflight
    /\ inflight' = inflight (+) SetToBag({call})
    /\ ncalls' = ncalls + 1
    /\ UNCHANGED <<result, alive>>

\* the suspended handler `call` resumes and goes on to its next await as `next`
Resume(call, next) ==
    /\ inflight' = (inflight (-) SetToBag({call})) (+) SetToBag({next})
    /\ UNCHANGED <<result, ncalls, alive>>

\* the suspended handler `call` resumes and returns or throws
Return(call, res) ==
    /\ result' = res
    /\ inflight' = inflight (-) SetToBag({call})
    /\ UNCHANGED <<ncalls, alive>>

\* the suspended handler `call` of method `op` is at `pc` and the process runs
At(call, op, pc) == alive /\ BagIn(call, inflight) /\ call.op = op /\ call.pc = pc

\* update, lines 107-111: a field is assigned when the patch's value is truthy
MergeIfPresent(task, patch) ==
    [f \in DOMAIN task |->
        IF f \in PatchFields /\ f \in DOMAIN patch THEN patch[f] ELSE task[f]]

Merge(task, patch) ==
    [f \in DOMAIN task |->
        IF f \in PatchFields /\ Truthy(Get(patch, f)) THEN patch[f] ELSE task[f]]

\* update, line 116: originalStatus !== updatedTask.status
StatusChangedAlways(originalStatus, updatedTask) == TRUE

StatusChanged(originalStatus, updatedTask) == originalStatus # updatedTask.status

\* what tasksRepository.remove(null) ends in is the repository's business: it
\* rejects (TypeORM) or returns; it never touches a row
RemoveNullOutcomes == {"StoreError", "ok"}

-----------------------------------------------------------------------------
(* create, lines 20-33 *)

\* lines 23-24: the entity is created and saved; the handler awaits the save
CreateSave(dto) ==
    /\ CanStart
    /\ nextId <= MaxTasks
    /\ LET task == RepoCreate(dto)
           savedTask == Persisted(task, nextId)
       IN  /\ store' = StoreSave(store, savedTask)
           /\ nextId' = nextId + 1
           /\ Suspend([op |-> "create", pc |-> "add",
                       task |-> task, savedTask |-> savedTask])
    /\ UNCHANGED <<queue, pending, rejections, deleted>>

CreateAddUnsaved(call) ==
    /\ At(call, "create", "add")
    /\ \E outcome \in AddOutcomes :
          QueueAdd([name |-> JobName, taskId |-> Get(call.task, "id"),
                    status |-> Get(call.task, "status")], outcome)
    /\ Return(call, [op |-> "create", outcome |-> "ok", value |-> call.savedTask])
    /\ UNCHANGED <<store, nextId, rejections, deleted>>

\* lines 27-32: the job of the saved task is added and the saved task returned
CreateAdd(call) ==
    /\ At(call, "create", "add")
    /\ \E outcome \in AddOutcomes : QueueAdd(StatusUpdateJob(call.savedTask), outcome)
    /\ Return(call, [op |-> "create", outcome |-> "ok", value |-> call.savedTask])
    /\ UNCHANGED <<store, nextId, rejections, deleted>>

-----------------------------------------------------------------------------
(* findOne, lines 85-97 *)

\* line 93: the repository looks the task up; the handler awaits it
FindOne(id) ==
    /\ CanStart
    /\ Suspend([op |-> "findOne", pc |-> "return", id |-> id,
                task |-> RepoFindOne(store, id)])
    /\ UNCHANGED <<store, nextId, queue, pending, rejections, deleted>>

\* lines 93-96: what the repository found, null included, is returned
FindOneReturn(call) ==
    /\ At(call, "findOne", "return")
    /\ Return(call, [op |-> "findOne", id |-> call.id, outcome |-> "ok",
                     value |-> call.task])
    /\ UNCHANGED <<store, nextId, queue, pending, rejections, deleted>>

-----------------------------------------------------------------------------
(* update, lines 99-124 *)

\* line 102: the task is looked up; the handler awaits it
UpdateLoad(id, patch) ==
    /\ CanStart
    /\ Suspend([op |-> "update", pc |-> "save", id |-> id,
                task |-> RepoFindOne(store, id), patch |-> patch])
    /\ UNCHANGED <<store, nextId, queue, pending, rejections, deleted>>

\* lines 104-113: line 104 reads a property of null when there is no task;
\* else the patch is merged into the loaded task, which is saved, and the
\* handler awaits the save
UpdateSave(call) ==
    /\ At(call, "update", "save")
    /\ IF call.task = NULL
       THEN /\ Return(call, [op |-> "update", id |-> call.id, patch |-> call.patch,
                             outcome |-> "TypeError"])
            /\ UNCHANGED store
       ELSE LET merged == Merge(call.task, call.patch)
            IN  /\ store' = StoreSave(store, merged)
                /\ Resume(call, [op |-> "update", pc |-> "add",
                                 id |-> call.id, task |-> call.task,
                                 patch |-> call.patch, updatedTask |-> merged])
    /\ UNCHANGED <<nextId, queue, pending, rejections, deleted>>

\* lines 116-123: the job is added when the status changed; the task is returned
UpdateAdd(call) ==
    /\ At(call, "update", "add")
    /\ LET originalStatus == call.task.status
           updatedTask == call.updatedTask
       IN  /\ IF StatusChanged(originalStatus, updatedTask)
              THEN \E outcome \in AddOutcomes :
                      QueueAdd(StatusUpdateJob(updatedTask), outcome)
              ELSE NoQueueAdd
           /\ Return(call, [op |-> "update", id |-> call.id, patch |-> call.patch,
                            outcome |-> "ok", value |-> updatedTask])
    /\ UNCHANGED <<store, nextId, rejections, deleted>>

-----------------------------------------------------------------------------
(* remove, lines 126-130 *)

\* line 128: the task is looked up; the handler awaits it
RemoveLoad(id) ==
    /\ CanStart
    /\ Suspend([op |-> "remove", pc |-> "remove", id |-> id,
                task |-> RepoFindOne(store, id)])
    /\ UNCHANGED <<store, nextId, queue, pending, rejections, deleted>>

\* line 129: the row of the loaded task is deleted, null going to
\* tasksRepository.remove as it is; the handler awaits the removal
RemoveDelete(call) ==
    /\ At(call, "remove", "remove")
    /\ IF call.task = NULL
       THEN /\ \E o \in RemoveNullOutcomes :
                  Resume(call, [op |-> "remove", pc |-> "return",
                                id |-> call.id, task |-> call.task, outcome |-> o])
            /\ UNCHANGED <<store, deleted>>
       ELSE /\ store' = StoreRemove(store, call.task)
            /\ deleted' = IF call.id \in StoreIds(store)
                          THEN deleted \cup {call.id} ELSE deleted
            /\ Resume(call, [op |-> "remove", pc |-> "return",
                             id |-> call.id, task |-> call.task, outcome |-> "ok"])
    /\ UNCHANGED <<nextId, queue, pending, rejections>>

\* line 130: remove ends
RemoveReturn(call) ==
    /\ At(call, "remove", "return")
    /\ Return(call, [op |-> "remove", id |-> call.id, outcome |-> call.outcome])
    /\ UNCHANGED <<store, nextId, queue, pending, rejections, deleted>>

-----------------------------------------------------------------------------
(* updateStatus, lines 138-143 *)

\* line 140: the task is looked up; the handler awaits it
UpdateStatusLoad(id, status) ==
    /\ CanStart
    /\ Suspend([op |-> "updateStatus", pc |-> "save", id |-> id,
                task |-> RepoFindOne(store, id), status |-> status])
    /\ UNCHANGED <<store, nextId, queue, pending, rejections, deleted>>

\* lines 141-142: line 141 assigns a property of null when there is no task;
\* else the status is overwritten and the task saved
UpdateStatusSave(call) ==
    /\ At(call, "updateStatus", "save")
    /\ IF call.task = NULL
       THEN /\ Return(call, [op |-> "updateStatus", id |-> call.id,
                             status |-> call.status, outcome |-> "TypeError"])
            /\ UNCHANGED store
       ELSE LET updated == [call.task EXCEPT !.status = call.status]
            IN  /\ store' = StoreSave(store, updated)
                /\ Resume(call, [op |-> "updateStatus", pc |-> "return", id |-> call.id,
                                 status |-> call.status, value |-> updated])
    /\ UNCHANGED <<nextId, queue, pending, rejections, deleted>>

\* line 142: the promise of the save resolves with the saved task
UpdateStatusReturn(call) ==
    /\ At(call, "updateStatus", "return")
    /\ Return(call, [op |-> "updateStatus", id |-> call.id, status |-> call.status,
                     outcome |-> "ok", value |-> call.value])
    /\ UNCHANGED <<store, nextId, queue, pending, rejections, deleted>>

\* the queue's worker takes the oldest job and calls updateStatus with its payload
Consume ==
    /\ CanStart
    /\ queue # <<>>
    /\ LET job == Head(queue)
       IN  Suspend([op |-> "updateStatus", pc |-> "save",
                    id |-> job.taskId, task |-> RepoFindOne(store, job.taskId),
                    status |-> job.status])
    /\ queue' = Tail(queue)
    /\ UNCHANGED <<store, nextId, pending, rejections, deleted>>

-----------------------------------------------------------------------------
(* findAll, lines 35-61 *)

\* lines 51-52 and 55: the defaults and the arguments of skip and take
DefaultPage == 1
DefaultLimit == 10

PageNumber(page) == IF TruthyNum(page) THEN ToNumber(page) ELSE JsNum(DefaultPage)
LimitNumber(limit) == IF TruthyNum(limit) THEN ToNumber(limit) ELSE JsNum(DefaultLimit)
SkipArg(page, limit) == JsNum((PageNumber(page).n - 1) * LimitNumber(limit).n)
TakeArg(page, limit) == limit

\* the andWhere filters, lines 44-49: a filter is added when truthy
Filters(status, priority) ==
    [f \in {g \in {"status", "priority"} :
                Truthy(IF g = "status" THEN status ELSE priority)} |->
        IF f = "status" THEN status ELSE priority]

\* lines 41-60: the query is built and run
FindAll(status, priority, page, limit) ==
    /\ CanStart
    /\ LET rows == QueryRows(store, Filters(status, priority))
           skip == SkipArg(page, limit)
           take == TakeArg(page, limit)
           args == [status |-> status, priority |-> priority, page |-> page,
                    limit |-> limit]
       IN  Suspend([op |-> "findAll", pc |-> "return",
                    args |-> args, value |-> GetMany(rows, skip, take)])
    /\ UNCHANGED <<store, nextId, queue, pending, rejections, deleted>>

\* line 60: the promise of getMany resolves with the rows
FindAllReturn(call) ==
    /\ At(call, "findAll", "return")
    /\ Return(call, [op |-> "findAll", args |-> call.args, outcome |-> "ok",
                     value |-> call.value])
    /\ UNCHANGED <<store, nextId, queue, pending, rejections, deleted>>

-----------------------------------------------------------------------------
(* findTasksStatistics, lines 63-83, and findByStatus, lines 132-136 *)

\* lines 64-75: the aggregate query is run; the handler awaits its raw row
FindTasksStatistics ==
    /\ CanStart
    /\ Suspend([op |-> "findTasksStatistics", pc |-> "return",
                raw |-> [total |-> SqlCount(store),
                         completed |-> SqlSum(store, "status", "COMPLETED"),
                         inProgress |-> SqlSum(store, "status", "IN_PROGRESS"),
                         pending |-> SqlSum(store, "status", "PENDING"),
                         highPriority |-> SqlSum(store, "priority", "HIGH")]])
    /\ UNCHANGED <<store, nextId, queue, pending, rejections, deleted>>

\* lines 76-82: the columns of the raw row are returned as numbers
FindTasksStatisticsReturn(call) ==
    /\ At(call, "findTasksStatistics", "return")
    /\ Return(call, [op |-> "findTasksStatistics", outcome |-> "ok",
                     value |-> [total |-> RawNumber(call.raw.total),
                                completed |-> RawNumber(call.raw.completed),
                                inProgress |-> RawNumber(call.raw.inProgress),
                                pending |-> RawNumber(call.raw.pending),
                                highPriority |-> RawNumber(call.raw.highPriority)]])
    /\ UNCHANGED <<store, nextId, queue, pending, rejections, deleted>>

\* lines 134-135: the rows whose status column equals the argument are queried
FindByStatus(status) ==
    /\ CanStart
    /\ Suspend([op |-> "findByStatus", pc |-> "return",
                status |-> status,
                value |-> SelectSeq(store, LAMBDA t : t.status = status)])
    /\ UNCHANGED <<store, nextId, queue, pending, rejections, deleted>>

\* line 135: the promise of the query resolves with the rows
FindByStatusReturn(call) ==
    /\ At(call, "findByStatus", "return")
    /\ Return(call, [op |-> "findByStatus", status |-> call.status, outcome |-> "ok",
                     value |-> call.value])
    /\ UNCHANGED <<store, nextId, queue, pending, rejections, deleted>>

-----------------------------------------------------------------------------
(* The service: calls start at any time and interleave at their awaits *)

Init ==
    /\ store = <<>>
    /\ nextId = 1
    /\ queue = <<>>
    /\ pending = <<>>
    /\ rejections = <<>>
    /\ alive = TRUE
    /\ result = [op |-> "none"]
    /\ ncalls = 0
    /\ inflight = EmptyBag
    /\ deleted = {}

Next ==
    \/ \E dto \in CreateDtos : CreateSave(dto)
    \/ \E call \in BagToSet(inflight) : CreateAdd(call)
    \/ \E id \in Ids : FindOne(id)
    \/ \E call \in BagToSet(inflight) : FindOneReturn(call)
    \/ \E id \in Ids, patch \in Patches : UpdateLoad(id, patch)
    \/ \E call \in BagToSet(inflight) : UpdateSave(call)
    \/ \E call \in BagToSet(inflight) : UpdateAdd(call)
    \/ \E id \in Ids : RemoveLoad(id)
    \/ \E call \in BagToSet(inflight) : RemoveDelete(call)
    \/ \E call \in BagToSet(inflight) : RemoveReturn(call)
    \/ \E id \in Ids, status \in StatusArgs : UpdateStatusLoad(id, status)
    \/ \E call \in BagToSet(inflight) : UpdateStatusSave(call)
    \/ \E call \in BagToSet(inflight) : UpdateStatusReturn(call)
    \/ FindAll(UNDEF, UNDEF, JsUndef, JsUndef)
    \/ \E call \in BagToSet(inflight) : FindAllReturn(call)
    \/ FindTasksStatistics
    \/ \E call \in BagToSet(inflight) : FindTasksStatisticsReturn(call)
    \/ \E status \in StatusArgs : FindByStatus(status)
    \/ \E call \in BagToSet(inflight) : FindByStatusReturn(call)
    \/ Consume
    \/ AddRejects
    \/ ProcessExit

Spec == Init /\ [][Next]_vars

\* create and update calls only, no worker running
NextUpdates ==
    \/ \E dto \in CreateDtos : CreateSave(dto)
    \/ \E call \in BagToSet(inflight) : CreateAdd(call)
    \/ \E id \in Ids, patch \in Patches : UpdateLoad(id, patch)
    \/ \E call \in BagToSet(inflight) : UpdateSave(call)
    \/ \E call \in BagToSet(inflight) : UpdateAdd(call)
    \/ AddRejects
    \/ ProcessExit

SpecUpdates == Init /\ [][NextUpdates]_vars

\* the calls that write the store or the queue, the worker and the process
NextWrites ==
    \/ \E dto \in CreateDtos : CreateSave(dto)
    \/ \E call \in BagToSet(inflight) : CreateAdd(call)
    \/ \E id \in Ids, patch \in Patches : UpdateLoad(id, patch)
    \/ \E call \in BagToSet(inflight) : UpdateSave(call)
    \/ \E call \in BagToSet(inflight) : UpdateAdd(call)
    \/ \E id \in Ids : RemoveLoad(id)
    \/ \E call \in BagToSet(inflight) : RemoveDelete(call)
    \/ \E call \in BagToSet(inflight) : RemoveReturn(call)
    \/ \E id \in Ids, status \in StatusArgs : UpdateStatusLoad(id, status)
    \/ \E call \in BagToSet(inflight) : UpdateStatusSave(call)
    \/ \E call \in BagToSet(inflight) : UpdateStatusReturn(call)
    \/ Consume
    \/ AddRejects
    \/ ProcessExit

SpecWrites == Init /\ [][NextWrites]_vars

-----------------------------------------------------------------------------
(* One findAll call on a store of up to MaxQueryTasks tasks *)

StatusCycle == <<"PENDING", "IN_PROGRESS", "COMPLETED">>
PriorityCycle == <<"LOW", "HIGH", "MEDIUM">>

\* a store of n created tasks whose statuses and priorities updates have set
QueryStore(n, k) ==
    [i \in 1..n |->
        [id |-> ToString(i), title |-> "t1", description |-> "d1",
         status |-> StatusCycle[((i * k) % 3) + 1],
         priority |-> PriorityCycle[((i + k) % 3) + 1],
         dueDate |-> NoDate, user |-> "u1"]]

StatusFilters == {UNDEF, "", "PENDING", "COMPLETED"}
PriorityFilters == {UNDEF, "HIGH"}
Pages == {JsUndef} \cup {JsNum(n) : n \in 0..3}
Limits == {JsUndef, JsNum(1), JsNum(2), JsNum(DefaultLimit)}

InitQuery ==
    /\ \E n \in 0..MaxQueryTasks, k \in 1..MaxPattern :
          /\ store = QueryStore(n, k)
          /\ nextId = n + 1
    /\ queue = <<>>
    /\ pending = <<>>
    /\ rejections = <<>>
    /\ alive = TRUE
    /\ result = [op |-> "none"]
    /\ ncalls = MaxCalls - 1
    /\ inflight = EmptyBag
    /\ deleted = {}

NextQuery ==
    \/ \E status \in StatusFilters, priority \in PriorityFilters,
          page \in Pages, limit \in Limits :
           FindAll(status, priority, page, limit)
    \/ \E call \in BagToSet(inflight) : FindAllReturn(call)

SpecQuery == InitQuery /\ [][NextQuery]_vars

-----------------------------------------------------------------------------
(* The service on a store of up to MaxTasks tasks of various statuses *)

\* the service after earlier calls have created the tasks and set their
\* statuses and priorities, the queue's jobs taken; three calls follow
InitStatistics ==
    /\ \E n \in 0..MaxTasks, k \in 1..MaxPattern :
          /\ store = QueryStore(n, k)
          /\ nextId = n + 1
    /\ queue = <<>>
    /\ pending = <<>>
    /\ rejections = <<>>
    /\ alive = TRUE
    /\ result = [op |-> "none"]
    /\ ncalls = MaxCalls - 3
    /\ inflight = EmptyBag
    /\ deleted = {}

SpecStatistics == InitStatistics /\ [][Next]_vars

-----------------------------------------------------------------------------
(* Properties *)

\* the calls suspended before or after the step
Calls == BagToSet(inflight) \cup BagToSet(inflight')

\* the step starts a call of handler `op`, suspended as `call` at its first await
Begins(call, op) ==
    /\ ncalls' = ncalls + 1
    /\ call.op = op
    /\ CopiesIn(call, inflight') = CopiesIn(call, inflight) + 1

\* the step is a step of the suspended call `call`: it resumes, the process
\* running on
Leaves(call) ==
    /\ ncalls' = ncalls
    /\ alive'
    /\ CopiesIn(call, inflight') = CopiesIn(call, inflight) - 1

\* the step is the return of the suspended call `call`
Returns(call) ==
    /\ Leaves(call)
    /\ BagCardinality(inflight') = BagCardinality(inflight) - 1
    /\ result'.op = call.op

\* the step is the save of the update call `call`, suspended next as `next`
Saves(call, next) ==
    /\ call.op = "update" /\ call.pc = "save"
    /\ Leaves(call)
    /\ next.op = "update" /\ next.pc = "add"
    /\ CopiesIn(next, inflight') = CopiesIn(next, inflight) + 1

TaskOf(s, id) == RepoFindOne(s, id)

LastJob == queue[Len(queue)]

NoAdd == queue' = queue /\ pending' = pending

\* the step hands `job` to the queue once: the queue takes it, or the promise
\* of the add is going to reject
AddsOnce(job) ==
    \/ queue' = Append(queue, job) /\ pending' = pending
    \/ queue' = queue /\ pending' = Append(pending, job)

\* C1: a findOne, update or remove call that looked up an id the store holds no
\* task for ends in a Not-Found outcome, and its steps leave the store and the
\* queue as they were.
C1_MissingIdIsNotFound ==
    [][\A call \in Calls :
          call.op \in {"findOne", "update", "remove"}
              => /\ Begins(call, call.op)
                    => /\ call.task = NULL <=> call.id \notin StoreIds(store)
                       /\ store' = store
                       /\ queue' = queue
                 /\ (call.task = NULL /\ Leaves(call))
                    => /\ store' = store
                       /\ queue' = queue
                       /\ Returns(call) => result'.outcome = "NotFound"]_vars

\* C2: an update call of an existing task loads the task's stored status before
\* the call and stores the task's status after it; when it returns, it has
\* handed the queue exactly one 'task-status-update' job carrying the task's id
\* and the status it stored when that status differs from the stored status
\* before the call, and nothing when the two are the same.  This holds of every
\* call under every interleaving with other calls.
C2_UpdateEnqueuesOnStatusChange ==
    [][\A call \in Calls :
          /\ (Begins(call, "update") /\ call.task # NULL)
                => /\ call.id \in StoreIds(store)
                   /\ call.task.status = TaskOf(store, call.id).status
                   /\ NoAdd
          /\ \A next \in Calls :
                Saves(call, next)
                    => /\ next.id = call.id
                       /\ next.task = call.task
                       /\ next.updatedTask.status = TaskOf(store', call.id).status
                       /\ NoAdd
          /\ (call.op = "update" /\ call.pc = "add" /\ Returns(call))
                => LET before == call.task.status
                       after == call.updatedTask.status
                       job == [name |-> JobName, taskId |-> call.id, status |-> after]
                   IN  /\ result'.outcome = "ok"
                       /\ result'.id = call.id
                       /\ result'.value.status = after
                       /\ IF before # after THEN AddsOnce(job) ELSE NoAdd]_vars

\* an update changed the status of a task and its job is the last of the queue
C2_Witness ==
    /\ result.op = "update"
    /\ result.outcome = "ok"
    /\ "status" \in DOMAIN result.patch
    /\ result.value.status # DefaultStatus
    /\ queue # <<>>
    /\ LastJob = [name |-> JobName, taskId |-> result.id, status |-> result.value.status]
    /\ Len(queue) >= 2

\* C3: a create call first persists a new task, adding no job; when it returns
\* and the queue accepts the job, it has added exactly one 'task-status-update'
\* job to the queue, carrying the id and the status of the task it persisted,
\* and that task was put in the store in an earlier step.
C3_CreateEnqueuesOneJob ==
    [][\A call \in Calls :
          /\ Begins(call, "create")
                => LET t == call.savedTask
                   IN  /\ t.id \notin StoreIds(store)
                       /\ TaskOf(store', t.id) = t
                       /\ t.status \in Statuses
                       /\ NoAdd
          /\ (call.op = "create" /\ Returns(call) /\ pending' = pending)
                => LET t == call.savedTask
                   IN  /\ result'.outcome = "ok"
                       /\ result'.value = t
                       /\ t.id \in {ToString(n) : n \in 1..(nextId - 1)}
                       /\ store' = store
                       /\ queue' = Append(queue, [name |-> JobName, taskId |-> t.id,
                                                  status |-> t.status])]_vars

\* a create persisted a second task and its job is the last of the queue
C3_Witness ==
    /\ result.op = "create"
    /\ result.outcome = "ok"
    /\ Len(store) = 2
    /\ queue # <<>>
    /\ LastJob.taskId = result.value.id
    /\ LastJob.status = DefaultStatus
    /\ TaskOf(store, result.value.id) = result.value

\* C4: when the queue rejects the enqueue, create and update still return the
\* persisted task and the store write is kept; and the failure is recorded as
\* a report: every rejection is reported by the time the service next returns
\* from a call or ends.
C4_QueueFailureIsReported ==
    [][/\ (Len(pending') = Len(pending) + 1)
             => /\ result'.op \in {"create", "update"}
                /\ result'.outcome = "ok"
                /\ result'.value.id = pending'[Len(pending')].taskId
                /\ store' = store
       /\ (BagCardinality(inflight') < BagCardinality(inflight) \/ alive' # alive)
             => \A i \in 1..Len(rejections) : rejections'[i].reported]_vars

\* C5: the save of an update call of an existing task writes the task as it was
\* stored before the call with exactly the patch's fields of truthy value set
\* to the patch's value: the task's other fields, its id and its user are as
\* before the call, and every other task is left as it is; the call's other
\* steps write nothing.  This holds of every call under every interleaving.
C5_UpdateSetsTruthyFields ==
    [][\A call \in Calls :
          /\ (Begins(call, "update") /\ call.task # NULL)
                => /\ call.task = TaskOf(store, call.id)
                   /\ store' = store
          /\ (call.op = "update" /\ call.pc = "add" /\ Returns(call))
                => store' = store
          /\ \A next \in Calls :
                Saves(call, next)
                    => LET id == call.id
                           patch == call.patch
                           old == call.task
                           new == TaskOf(store', id)
                       IN  /\ next.patch = patch
                           /\ \A f \in PatchFields :
                                  new[f] = IF f \in DOMAIN patch /\ patch[f] # ""
                                           THEN patch[f] ELSE old[f]
                           /\ new.id = old.id
                           /\ new.user = old.user
                           /\ DOMAIN new = DOMAIN old
                           /\ \A i \in 1..Len(store) :
                                  store[i].id # id => store'[i] = store[i]
                           /\ next.updatedTask = new]_vars

\* an update whose patch holds an empty string and a truthy value ran on one of
\* two stored tasks
C5_Witness ==
    /\ result.op = "update"
    /\ result.outcome = "ok"
    /\ Len(store) = 2
    /\ TaskOf(store, result.id) = result.value
    /\ \E f \in DOMAIN result.patch : result.patch[f] = "" /\ result.value[f] # ""
    /\ \E f \in DOMAIN result.patch : result.patch[f] # "" /\ result.value[f] = result.patch[f]

\* C6: findAll returns, in store order, the matching tasks at positions
\* (p-1)*l+1 .. p*l, with p = 1 when page is omitted or invalid and l = 10 when
\* limit is omitted or invalid.
C6_FindAllReturnsThePage ==
    result.op = "findAll"
        => LET a == result.args
               p == IF a.page.t = "number" /\ a.page.n >= 1 THEN a.page.n ELSE 1
               l == IF a.limit.t = "number" /\ a.limit.n >= 1 THEN a.limit.n ELSE 10
               matching == SelectSeq(store, LAMBDA t :
                               /\ (a.status \in Statuses => t.status = a.status)
                               /\ (a.priority \in Priorities => t.priority = a.priority))
               last == IF p * l < Len(matching) THEN p * l ELSE Len(matching)
           IN  /\ result.outcome = "ok"
               /\ result.value = SubSeq(matching, (p - 1) * l + 1, last)
               /\ Len(result.value) <= l

\* C7: the status and the priority of every stored task are members of their
\* enumerations.
C7_StatusAndPriorityAreEnumerated ==
    \A i \in 1..Len(store) :
        store[i].status \in Statuses /\ store[i].priority \in Priorities

\* C8: findTasksStatistics reads, as of the call, the number of stored tasks,
\* the numbers of tasks whose status is COMPLETED, IN_PROGRESS and PENDING, and
\* the number whose priority is HIGH, returns these numbers, and changes
\* neither the store nor the queue.
C8_StatisticsCountTheStore ==
    [][\A call \in Calls :
          call.op = "findTasksStatistics"
              => LET N(field, value) ==
                         Cardinality({i \in 1..Len(store) : store[i][field] = value})
                     Read(column) ==
                         IF call.raw[column] = NULL THEN 0 ELSE call.raw[column].n
                     read == [total |-> Read("total"),
                              completed |-> Read("completed"),
                              inProgress |-> Read("inProgress"),
                              pending |-> Read("pending"),
                              highPriority |-> Read("highPriority")]
                 IN  /\ Begins(call, "findTasksStatistics")
                           => /\ read = [total |-> Len(store),
                                         completed |-> N("status", "COMPLETED"),
                                         inProgress |-> N("status", "IN_PROGRESS"),
                                         pending |-> N("status", "PENDING"),
                                         highPriority |-> N("priority", "HIGH")]
                              /\ store' = store
                              /\ queue' = queue
                     /\ Returns(call)
                           => /\ result'.outcome = "ok"
                              /\ result'.value = read
                              /\ store' = store
                              /\ queue' = queue]_vars

\* statistics were taken of two tasks of different statuses, one of them of
\* high priority, and the store has changed since
C8_Witness ==
    /\ result.op = "findTasksStatistics"
    /\ result.value.total = 2
    /\ result.value.highPriority = 1
    /\ result.value.completed = 1
    /\ result.value.inProgress = 1
    /\ result.value.pending = 0
    /\ \E i \in 1..Len(store) : store[i].status \notin {"COMPLETED", "IN_PROGRESS"}

\* C9: with the queue accepting every job and update calls interleaving, a save
\* that changes the task's stored status is one whose call goes on to enqueue
\* the new status (the status it saved differs from the one it loaded), an
\* update whose patch has no status never changes the stored status, and once
\* all calls have finished the last job enqueued for a task carries its stored
\* status.
C9_StatusChangesAreEnqueued ==
    [][(pending' = <<>> /\ rejections' = <<>>)
          => \A call \in Calls :
                /\ \A next \in Calls :
                      Saves(call, next)
                          => LET before == TaskOf(store, call.id).status
                                 after == TaskOf(store', call.id).status
                             IN  /\ before # after => call.task.status # after
                                 /\ "status" \notin DOMAIN call.patch => after = before
                /\ (call.op = "update" /\ call.pc = "add" /\ Returns(call)
                       /\ inflight' = EmptyBag)
                      => LET jobs == SelectSeq(queue', LAMBDA j : j.taskId = call.id)
                         IN  jobs[Len(jobs)].status = TaskOf(store', call.id).status]_vars

\* C10: once a remove call has deleted a task, no task with its id is in the
\* store again.
C10_DeletedStaysDeleted == \A id \in deleted : id \notin StoreIds(store)

====
